---- MODULE Spec2Model ----
(***************************************************************************)
(* KaspaBot (src/kaspa_bot.py): the wallet watch list, the per-address set *)
(* of notified transaction ids, the snapshot file, the monitoring task and *)
(* the add/remove command handlers, which interleave with the monitoring   *)
(* task at its await points.                                               *)
(*                                                                         *)
(* Transaction ids are hex strings of one length in the program; they are  *)
(* modelled as the integers 1..IdSpace, whose order stands for the         *)
(* lexicographic order sorted() uses on those strings.  NoId is the empty  *)
(* string tx.get('transaction_id', '') yields for a missing id.            *)
(*                                                                         *)
(* An action is the code a task runs from one await to the next.  The      *)
(* Application handles one update at a time, so at most one command        *)
(* handler is in flight; it interleaves with the monitoring task.  The     *)
(* addresses of the commands all carry the 'kaspa:' prefix (lines 156-162  *)
(* reject the others without touching the state).                          *)
(*                                                                         *)
(* The variables marked "history" record what happened and are read by no  *)
(* action.  A specification records the histories its initial state names  *)
(* in observe, and its snapshot file fails in the ways diskFaults names.   *)
(***************************************************************************)
EXTENDS Integers, Sequences, FiniteSets, TLC

VARIABLES
    wallets,        \* self.wallets: chat_id -> list of addresses (DOMAIN = the dict's keys)
    walletKeys,     \* insertion order of the keys of self.wallets
    notified,       \* self.notified_transactions: address -> set of tx ids
    disk,           \* the content of wallets_data.json
    pc,             \* the await the monitoring task is suspended at
    dictSize,       \* size of self.wallets when the dict iterator of the cycle was created
    ki,             \* number of keys the dict iterator has yielded
    curChat,        \* chat_id of the running for-loop
    li,             \* index of the list iterator over wallets (elements yielded)
    curAddr,        \* wallet_address of the running for-loop
    txs,            \* transactions[:10] of the running process_transactions
    ti,             \* number of transactions the loop of process_transactions has taken
    cmd,            \* the command handler in flight (suspended in add_wallet), or idle
    lastSend,       \* the last call of send_transaction_notification and its outcome
    deliveries,     \* history: <<address, tx id>> -> successful send_message calls (capped)
    cycleLog,       \* history: the fetches of the running cycle: chat, address, failed or not
    cycleSnap,      \* history: the (chat, address) pairs of self.wallets when the cycle began
    cmdsInCycle,    \* history: a command handler changed self.wallets during the running cycle
    lastFetch,      \* history: how the last HTTP GET of the monitoring task ended
    everMarked,     \* history of DedupSpec: address -> ids loaded or marked so far
    lastMark,       \* history of DedupSpec: the last mark_transaction_notified call
    lastOp,         \* history: the operation that ran last and how its write of the file ended
    lastSaved,      \* history: the wallets and notified sets the last write that succeeded wrote
    cycleTick,      \* history: flips whenever a cycle of monitor_wallets starts
    fetchedTxs,     \* history: the list the last fetch of the monitoring task returned
    retained,       \* history: <<chat_id, address>> -> ids notified when the chat removed the
                    \* address last, and whether the chat has added it back
    dispatched,     \* history: the <<chat_id, address, tx id>> send_transaction_notification
                    \* was called with
    observe,        \* the histories a specification records (fixed by its initial state)
    diskFaults      \* the ways a write of the snapshot file can fail (fixed likewise)

vars == <<wallets, walletKeys, notified, disk, pc, dictSize, ki, curChat, li,
          curAddr, txs, ti, cmd, lastSend, deliveries, dispatched, cycleLog, cycleSnap,
          cmdsInCycle, lastFetch, everMarked, lastMark, lastOp, lastSaved,
          cycleTick, fetchedTxs, retained, observe, diskFaults>>

envVars == <<observe, diskFaults, everMarked, lastMark>>
monVars == <<pc, dictSize, ki, curChat, li, curAddr, txs, ti>>

(***************************************************************************)
(* Bounds and program constants                                            *)
(***************************************************************************)
IdSpace == 1200         \* transaction ids are 1..IdSpace
NoId == 0

TrimLimit == 1000       \* len(...) > 1000
TrimKeep == 800         \* sorted_txs[-800:]
SeedWindow == 50        \* transactions[:50]
ProcessWindow == 10     \* transactions[:10]

ChatIds == {1, 2}
Addresses == {"A", "B"}
\* the /add and /remove commands the subscribers send: <<chat_id, address>>
Commands == {<<1, "A">>, <<1, "B">>, <<2, "A">>}
NoChat == 0
NoAddr == "-"

(***************************************************************************)
(* Transactions as the upstream API returns them                           *)
(***************************************************************************)
Out(a, n) == [script_public_key_address |-> a, amount |-> n]
In(a) == [previous_outpoint_address |-> a]
Tx(id, ins, outs) == [transaction_id |-> id, inputs |-> ins, outputs |-> outs]

\* a payment from C to A (which does not touch B), a transaction with no
\* outputs, and a record without transaction_id
TxIn == Tx(1, <<In("C")>>, <<Out("A", 5), Out("C", 2)>>)
TxEmpty == Tx(2, <<In("A")>>, <<>>)
TxNoId == Tx(NoId, <<In("C")>>, <<Out("A", 1)>>)

\* the lists of transactions the API returns
FetchLists == {<<>>, <<TxIn>>, <<TxEmpty, TxIn>>, <<TxNoId, TxIn>>}

\* what the HTTP GET of check_transactions ends in
Resp(k, l) == [kind |-> k, txs |-> l]
Responses ==
    {Resp("timeout", <<>>), Resp("status", <<>>), Resp("json", <<>>)}
        \cup {Resp("list", l) : l \in FetchLists}
None == Resp("none", <<>>)
\* the GET timed out or raised; the status was not 200
FailureKinds == {"timeout", "status"}

Range(s) == {s[i] : i \in DOMAIN s}
Take(s, n) == SubSeq(s, 1, IF Len(s) < n THEN Len(s) ELSE n)
EmptyMap == [x \in {} |-> {}]

(***************************************************************************)
(* check_transactions: None on a timeout, an exception or a non-200 status *)
(***************************************************************************)
\* (mutant) the exception of a timed-out GET leaves check_transactions
check_transactions_raises(resp) ==
    IF resp.kind = "timeout" THEN Resp("raised", <<>>)
    ELSE IF resp.kind = "status" THEN None ELSE resp

check_transactions(resp) ==
    IF resp.kind \in FailureKinds THEN None ELSE resp

\* Python truth value of what check_transactions returned
Truthy(data) == data.kind = "json" \/ (data.kind = "list" /\ Len(data.txs) > 0)

(***************************************************************************)
(* is_transaction_notified / mark_transaction_notified                     *)
(***************************************************************************)
\* lines 69-70 and 75-76: the set of an address is created on first reference
NotifiedInit(nt, a) == IF a \in DOMAIN nt THEN nt ELSE nt @@ (a :> {})

is_transaction_notified(nt, a, h) == h \in NotifiedInit(nt, a)[a]

\* sorted(set): the ids in ascending order
sorted(S) == SelectSeq([i \in 1..IdSpace |-> i], LAMBDA x : x \in S)

\* seq[-n:]
LastN(s, n) == SubSeq(s, IF Len(s) > n THEN Len(s) - n + 1 ELSE 1, Len(s))

\* (mutant) sorted_txs[:800]
TrimSetSmallest(S) == Range(Take(sorted(S), TrimKeep))

TrimSet(S) == Range(LastN(sorted(S), TrimKeep))

\* (mutant) no trimming
mark_notified_no_trim(nt, a, h) ==
    [NotifiedInit(nt, a) EXCEPT ![a] = @ \cup {h}]

\* (mutant) trims when the set reaches the limit
mark_notified_trim_early(nt, a, h) ==
    LET n1 == NotifiedInit(nt, a)
        n2 == [n1 EXCEPT ![a] = @ \cup {h}]
    IN  IF Cardinality(n2[a]) >= TrimLimit
        THEN [n2 EXCEPT ![a] = TrimSet(@)]
        ELSE n2

\* mark_transaction_notified without its save_wallets call
mark_transaction_notified(nt, a, h) ==
    LET n1 == NotifiedInit(nt, a)
        n2 == [n1 EXCEPT ![a] = @ \cup {h}]
    IN  IF Cardinality(n2[a]) > TrimLimit
        THEN [n2 EXCEPT ![a] = TrimSet(@)]
        ELSE n2

(***************************************************************************)
(* save_wallets / load_wallets                                             *)
(***************************************************************************)
DiskMissing == [kind |-> "missing", keys |-> <<>>, wallets |-> EmptyMap, notified |-> EmptyMap]
DiskCorrupt == [kind |-> "corrupt", keys |-> <<>>, wallets |-> EmptyMap, notified |-> EmptyMap]
\* a JSON document whose 'wallets' has a key that is no number; its
\* 'notified_transactions' is as save_wallets writes it
DiskBadWallets ==
    [kind |-> "bad_wallets", keys |-> <<>>, wallets |-> EmptyMap, notified |-> ("A" :> {1})]
\* a JSON document whose 'wallets' is as save_wallets writes it and whose
\* 'notified_transactions' has a value that is no list
DiskBadNotified ==
    [kind |-> "bad_notified", keys |-> <<"1">>, wallets |-> ("1" :> <<"A">>),
     notified |-> EmptyMap]

\* json.dump writes the int keys of self.wallets as strings
KeyStr(c) == ToString(c)
\* int(k)
ParseInt(k) == CHOOSE c \in ChatIds : ToString(c) = k

Snapshot(w, keys, nt) ==
    [kind |-> "ok",
     keys |-> [i \in DOMAIN keys |-> KeyStr(keys[i])],
     wallets |-> [k \in {KeyStr(c) : c \in DOMAIN w} |-> w[ParseInt(k)]],
     notified |-> nt]

SaveFaults == {"open_fails", "dump_fails"}
SaveOutcomes == {"ok"} \cup diskFaults

\* save_wallets: open(..., 'w') truncates the file before json.dump writes it
save_wallets(w, keys, nt, d, outcome) ==
    CASE outcome = "ok" -> Snapshot(w, keys, nt)
      [] outcome = "open_fails" -> d
      [] outcome = "dump_fails" -> DiskCorrupt

\* (mutant) lines 38-41 left out: 'notified_transactions' is not read
load_wallets_without_history(d) ==
    IF d.kind = "ok"
    THEN [wallets |-> [c \in {ParseInt(k) : k \in DOMAIN d.wallets} |-> d.wallets[KeyStr(c)]],
          keys |-> [i \in DOMAIN d.keys |-> ParseInt(d.keys[i])],
          notified |-> EmptyMap]
    ELSE [wallets |-> EmptyMap, keys |-> <<>>, notified |-> EmptyMap]

\* (mutant) the except clause leaves what line 35 has assigned
load_wallets_keeps_wallets(d) ==
    IF d.kind \in {"ok", "bad_notified"}
    THEN [wallets |-> [c \in {ParseInt(k) : k \in DOMAIN d.wallets} |-> d.wallets[KeyStr(c)]],
          keys |-> [i \in DOMAIN d.keys |-> ParseInt(d.keys[i])],
          notified |-> IF d.kind = "ok" THEN d.notified ELSE EmptyMap]
    ELSE [wallets |-> EmptyMap, keys |-> <<>>, notified |-> EmptyMap]

\* load_wallets: [wallets, keys, notified].  A missing file leaves the empty
\* dicts of __init__ (line 32); open, json.load, int(k) (line 35) or set(v)
\* (line 40) raising leads to lines 47-48, which empty both dicts.
load_wallets(d) ==
    IF d.kind = "ok"
    THEN [wallets |-> [c \in {ParseInt(k) : k \in DOMAIN d.wallets} |-> d.wallets[KeyStr(c)]],
          keys |-> [i \in DOMAIN d.keys |-> ParseInt(d.keys[i])],
          notified |-> d.notified]
    ELSE [wallets |-> EmptyMap, keys |-> <<>>, notified |-> EmptyMap]

(***************************************************************************)
(* send_transaction_notification: the message it builds                    *)
(***************************************************************************)
RECURSIVE SumSeq(_)
SumSeq(s) == IF s = <<>> THEN 0 ELSE Head(s) + SumSeq(Tail(s))

is_incoming(a, tx) ==
    \E i \in DOMAIN tx.outputs : tx.outputs[i].script_public_key_address = a

\* (mutant) the incoming amount sums every output
Classify_sums_all(a, tx) ==
    IF is_incoming(a, tx)
    THEN [direction |-> "Incoming",
          from_address |-> IF tx.inputs # <<>>
                           THEN tx.inputs[1].previous_outpoint_address ELSE "Unknown",
          to_address |-> a,
          amount |-> SumSeq([i \in DOMAIN tx.outputs |-> tx.outputs[i].amount])]
    ELSE [direction |-> "Outgoing",
          from_address |-> a,
          to_address |-> IF tx.outputs # <<>>
                         THEN tx.outputs[1].script_public_key_address ELSE "Unknown",
          amount |-> SumSeq([i \in DOMAIN tx.outputs |-> tx.outputs[i].amount])]

Classify(a, tx) ==
    IF is_incoming(a, tx)
    THEN [direction |-> "Incoming",
          from_address |-> IF tx.inputs # <<>>
                           THEN tx.inputs[1].previous_outpoint_address ELSE "Unknown",
          to_address |-> a,
          amount |-> SumSeq([i \in DOMAIN tx.outputs |->
                        IF tx.outputs[i].script_public_key_address = a
                        THEN tx.outputs[i].amount ELSE 0])]
    ELSE [direction |-> "Outgoing",
          from_address |-> a,
          to_address |-> IF tx.outputs # <<>>
                         THEN tx.outputs[1].script_public_key_address ELSE "Unknown",
          amount |-> SumSeq([i \in DOMAIN tx.outputs |-> tx.outputs[i].amount])]

\* lines 64-65: save_wallets catches every exception of its write
\* (mutant) a failed write raises out of save_wallets
save_raises_on_failure(outcome) == outcome # "ok"

save_raises(outcome) == FALSE

\* from: for the start of a cycle, where the monitoring task stood
Op(o, c, a, h, s, f) ==
    [op |-> o, chat |-> c, addr |-> a, id |-> h, saved |-> s, from |-> f]
NoOp == Op("-", NoChat, NoAddr, NoId, "-", "-")
NoSave == [valid |-> FALSE, wallets |-> EmptyMap, keys |-> <<>>, notified |-> EmptyMap,
           failed |-> FALSE, recovers |-> FALSE]

NoMark == [valid |-> FALSE, addr |-> NoAddr, id |-> NoId, before |-> {}]

NoSend == [sent |-> FALSE, ok |-> FALSE, chat |-> NoChat, addr |-> NoAddr,
           tx |-> Tx(NoId, <<>>, <<>>), msg |-> Classify(NoAddr, Tx(NoId, <<>>, <<>>))]

(***************************************************************************)
(* monitor_wallets: the two for-loops between awaits                       *)
(***************************************************************************)
\* the (chat, address) pairs of self.wallets, in iteration order
RECURSIVE Pairs(_, _, _)
Pairs(w, keys, i) ==
    IF i > Len(keys) THEN <<>>
    ELSE [j \in DOMAIN w[keys[i]] |-> <<keys[i], w[keys[i]][j]>>] \o Pairs(w, keys, i + 1)

Stop(p, k, c, l, a) == [pc |-> p, ki |-> k, chat |-> c, li |-> l, addr |-> a]

\* Runs the loops of lines 317-318 on to the next await: the fetch of the next
\* address ("fetch"), the sleep that ends the cycle ("sleep30"), or the sleep
\* of the except clause ("backoff") when the dict iterator finds that
\* self.wallets changed size since the iterator was created.
RECURSIVE NextWallet(_, _, _, _, _, _), NextChat(_, _, _, _)
NextWallet(w, keys, size, k, c, l) ==
    IF l < Len(w[c])
    THEN Stop("fetch", k, c, l + 1, w[c][l + 1])
    ELSE NextChat(w, keys, size, k)
NextChat(w, keys, size, k) ==
    IF Len(keys) # size THEN Stop("backoff", 0, NoChat, 0, NoAddr)
    ELSE IF k >= Len(keys) THEN Stop("sleep30", 0, NoChat, 0, NoAddr)
    ELSE NextWallet(w, keys, size, k + 1, keys[k + 1], 0)

(***************************************************************************)
(* process_transactions: the loop of lines 346-362 between awaits          *)
(***************************************************************************)
\* From the i-th transaction on, up to the next transaction that is sent
\* ("send", suspended in send_message) or the end of the list ("sleep1").
RECURSIVE ProcScan(_, _, _, _)
ProcScan(list, i, a, nt) ==
    IF i >= Len(list) THEN [pc |-> "sleep1", ti |-> 0, notified |-> nt]
    ELSE LET h == list[i + 1].transaction_id
         IN  IF h # NoId /\ ~is_transaction_notified(nt, a, h)
             THEN [pc |-> "send", ti |-> i + 1, notified |-> NotifiedInit(nt, a)]
             ELSE ProcScan(list, i + 1, a, IF h # NoId THEN NotifiedInit(nt, a) ELSE nt)

\* (mutant) the slice takes one transaction more
ToProcess_one_more(data) ==
    IF Truthy(data) /\ data.kind = "list" THEN Take(data.txs, ProcessWindow + 1) ELSE <<>>

\* line 322 and lines 344-346: what process_transactions iterates over
ToProcess(data) ==
    IF Truthy(data) /\ data.kind = "list" THEN Take(data.txs, ProcessWindow) ELSE <<>>

Bump(d, a, h) ==
    LET key == <<a, h>>
    IN  IF key \in DOMAIN d THEN [d EXCEPT ![key] = IF @ < 2 THEN @ + 1 ELSE @]
        ELSE d @@ (key :> 1)

(***************************************************************************)
(* Initial state: KaspaBot.__init__ has loaded the snapshot file           *)
(***************************************************************************)
Prefill(n) == (IdSpace - 100 - n + 1)..(IdSpace - 100)

\* snapshot files an earlier run of the program can have left
InitialDisks ==
    {DiskMissing, DiskCorrupt,
     Snapshot((1 :> <<"A", "B">>), <<1>>, ("A" :> {} @@ "B" :> {}))}

\* a snapshot file whose set for A is one below the limit
FullDisk == Snapshot((1 :> <<"A">>), <<1>>, ("A" :> Prefill(TrimLimit - 1)))

InitFrom(d, obs, faults) ==
    /\ observe = obs
    /\ diskFaults = faults
    /\ disk = d
    /\ wallets = load_wallets(d).wallets
    /\ walletKeys = load_wallets(d).keys
    /\ notified = load_wallets(d).notified
    /\ pc = "boot"
    /\ dictSize = 0 /\ ki = 0 /\ li = 0 /\ ti = 0
    /\ curChat = NoChat /\ curAddr = NoAddr
    /\ txs = <<>>
    /\ cmd = [pc |-> "idle", chat |-> NoChat, addr |-> NoAddr]
    /\ lastSend = NoSend
    /\ deliveries = [x \in {} |-> 0]
    /\ cycleLog = <<>> /\ cycleSnap = <<>>
    /\ cmdsInCycle = FALSE
    /\ lastFetch = "-"
    /\ lastMark = NoMark
    /\ lastOp = IF "ops" \in obs THEN Op("load", NoChat, NoAddr, NoId, "-", "-") ELSE NoOp
    /\ lastSaved = NoSave
    /\ cycleTick = 0
    /\ fetchedTxs = <<>>
    /\ retained = [x \in {} |-> {}]
    /\ dispatched = {}

Init ==
    /\ \E d \in InitialDisks : InitFrom(d, {"cycle"}, {})
    /\ everMarked = EmptyMap

InitFull ==
    /\ InitFrom(FullDisk, {"deliveries"}, {})
    /\ everMarked = EmptyMap

(***************************************************************************)
(* The monitoring task                                                     *)
(***************************************************************************)
\* history: the operation that ran and how its write of the snapshot file
\* ended ("-" when it writes nothing); a write that succeeded leaves what it
\* wrote in the file, a json.dump that failed leaves a truncated file;
\* failed: the last write of this run of the process failed; recovers: the
\* last write succeeded and the one before it had failed
Did(o, c, a, h, outcome) ==
    /\ lastOp' = IF "ops" \in observe
                 THEN Op(o, c, a, h, outcome, IF o = "cycle" THEN pc ELSE "-")
                 ELSE NoOp
    /\ lastSaved' =
          IF "ops" \notin observe \/ outcome = "-" THEN lastSaved
          ELSE IF outcome = "ok"
          THEN [valid |-> TRUE, wallets |-> wallets', keys |-> walletKeys',
                notified |-> notified', failed |-> FALSE, recovers |-> lastSaved.failed]
          ELSE IF outcome = "dump_fails"
          THEN [NoSave EXCEPT !.failed = TRUE]
          ELSE [lastSaved EXCEPT !.failed = TRUE, !.recovers = FALSE]

\* a step that writes nothing and that no claim singles out
Step == Did("step", NoChat, NoAddr, NoId, "-")

SetStop(r) ==
    /\ pc' = r.pc /\ ki' = r.ki /\ curChat' = r.chat /\ li' = r.li /\ curAddr' = r.addr

\* (mutant) the except clause ends the task after its sleep
LoopsBackFrom_not_after_except == {"boot", "sleep30"}

\* while True (line 314): where the task stands when it goes to the top of
\* the loop: started, after sleep(30), after the sleep(60) of the except clause
LoopsBackFrom == {"boot", "sleep30", "backoff"}

\* lines 315-318: the session and the iterators are created and the loops
\* run to the first await
StartCycle ==
    /\ dictSize' = Len(walletKeys)
    /\ SetStop(NextChat(wallets, walletKeys, Len(walletKeys), 0))
    /\ txs' = <<>> /\ ti' = 0
    /\ cycleLog' = <<>>
    /\ cycleSnap' = IF "cycle" \in observe THEN Pairs(wallets, walletKeys, 1) ELSE <<>>
    /\ cmdsInCycle' = FALSE
    /\ lastSend' = NoSend /\ lastFetch' = "-"
    /\ cycleTick' = IF "ticks" \in observe THEN 1 - cycleTick ELSE cycleTick
    /\ fetchedTxs' = <<>>
    /\ Did("cycle", NoChat, NoAddr, NoId, "-")
    /\ UNCHANGED <<wallets, walletKeys, notified, disk, cmd, deliveries, dispatched, retained, envVars>>

\* (mutant) the task waits 30 s before its first cycle and again after the
\* sleep(60) of the except clause
MonCycleStart_idles_first ==
    \/ /\ pc \in {"boot", "backoff"}
       /\ pc' = "sleep30"
       /\ Step
       /\ UNCHANGED <<wallets, walletKeys, notified, disk, dictSize, ki, curChat, li,
                      curAddr, txs, ti, cmd, lastSend, deliveries, dispatched, cycleLog, cycleSnap,
                      cmdsInCycle, lastFetch, cycleTick, fetchedTxs, retained, envVars>>
    \/ /\ pc = "sleep30"
       /\ StartCycle

\* a new cycle begins
MonCycleStart ==
    /\ pc \in LoopsBackFrom
    /\ StartCycle

\* line 320 returns; lines 322-329 run process_transactions up to its first
\* await.  An exception that left check_transactions would reach the except
\* clause of line 337.
MonFetch(resp) ==
    /\ pc = "fetch"
    /\ LET data == check_transactions(resp)
           r == IF data.kind = "raised"
                THEN [pc |-> "backoff", ti |-> 0, notified |-> notified]
                ELSE ProcScan(ToProcess(data), 0, curAddr, notified)
       IN  /\ txs' = IF r.pc = "send" THEN ToProcess(data) ELSE <<>>
           /\ pc' = r.pc /\ ti' = r.ti /\ notified' = r.notified
           /\ lastFetch' = resp.kind
           /\ cycleLog' = IF "cycle" \in observe
                          THEN Append(cycleLog, [chat |-> curChat, addr |-> curAddr,
                                                 failed |-> resp.kind \in FailureKinds])
                          ELSE cycleLog
    /\ lastSend' = NoSend
    /\ fetchedTxs' = IF "window" \in observe THEN resp.txs ELSE <<>>
    /\ Step
    /\ UNCHANGED <<wallets, walletKeys, disk, dictSize, ki, curChat, li, curAddr,
                   cmd, deliveries, dispatched, cycleSnap, cmdsInCycle, cycleTick, retained, envVars>>

\* send_message returns or raises (lines 414-423); line 359 marks the
\* transaction and saves; the task then sleeps 0.5
MonSend(sinkOk, saved) ==
    /\ pc = "send"
    /\ UNCHANGED <<wallets, walletKeys, dictSize, ki, curChat, li, curAddr,
                   cmd, cycleLog, cycleSnap, cmdsInCycle, envVars>>
    /\ UNCHANGED <<cycleTick, fetchedTxs, retained>>
    /\ LET tx == txs[ti]
           h == tx.transaction_id
       IN  /\ lastSend' = [sent |-> TRUE, ok |-> sinkOk, chat |-> curChat, addr |-> curAddr,
                           tx |-> tx, msg |-> Classify(curAddr, tx)]
           /\ deliveries' = IF sinkOk /\ "deliveries" \in observe
                            THEN Bump(deliveries, curAddr, h) ELSE deliveries
           /\ dispatched' = IF "dispatched" \in observe
                            THEN dispatched \cup {<<curChat, curAddr, h>>} ELSE dispatched
           /\ notified' = mark_transaction_notified(notified, curAddr, h)
           /\ disk' = save_wallets(wallets, walletKeys, notified', disk, saved)
           /\ Did("mark", curChat, curAddr, h, saved)
    /\ IF save_raises(saved)
       THEN pc' = "sleep1" /\ txs' = <<>> /\ ti' = 0
       ELSE pc' = "pause" /\ UNCHANGED <<txs, ti>>
    /\ lastFetch' = "-"

\* sleep(0.5) is over: the loop of process_transactions goes on
MonPause ==
    /\ pc = "pause"
    /\ LET r == ProcScan(txs, ti, curAddr, notified)
       IN  /\ pc' = r.pc /\ ti' = r.ti /\ notified' = r.notified
           /\ txs' = IF r.pc = "send" THEN txs ELSE <<>>
    /\ lastSend' = NoSend
    /\ UNCHANGED <<wallets, walletKeys, disk, dictSize, ki, curChat, li, curAddr,
                   cmd, deliveries, dispatched, cycleLog, cycleSnap, cmdsInCycle, lastFetch, envVars>>
    /\ UNCHANGED <<cycleTick, fetchedTxs, retained>>
    /\ Step

\* sleep(1) is over: the next address, the next chat, or the end of the cycle
MonPace ==
    /\ pc = "sleep1"
    /\ SetStop(NextWallet(wallets, walletKeys, dictSize, ki, curChat, li))
    /\ txs' = <<>> /\ ti' = 0
    /\ lastSend' = NoSend /\ lastFetch' = "-"
    /\ fetchedTxs' = <<>>
    /\ Step
    /\ UNCHANGED <<wallets, walletKeys, notified, disk, dictSize, cmd, deliveries, dispatched,
                   cycleLog, cycleSnap, cmdsInCycle, cycleTick, retained, envVars>>

(***************************************************************************)
(* The command handlers (the Application runs one update at a time)        *)
(***************************************************************************)
Idle == [pc |-> "idle", chat |-> NoChat, addr |-> NoAddr]

\* list.remove: the first occurrence
RemoveFirst(s, a) ==
    LET i == CHOOSE j \in DOMAIN s : s[j] = a /\ \A m \in 1..(j - 1) : s[m] # a
    IN  SubSeq(s, 1, i - 1) \o SubSeq(s, i + 1, Len(s))

\* ids initialize_wallet_history adds (lines 200-205)
SeedIds(data) ==
    IF Truthy(data) /\ data.kind = "list"
    THEN {t.transaction_id : t \in Range(Take(data.txs, SeedWindow))} \ {NoId}
    ELSE {}

\* (mutant) line 168 without its test
already_monitored_unchecked(w, c, a) == FALSE

\* line 168: wallet_address in self.wallets[chat_id]
already_monitored(w, c, a) == a \in Range(w[c])

\* add_wallet, lines 164-185, up to the await of initialize_wallet_history or
\* to its end
CmdAdd(c, a, saved) ==
    /\ cmd.pc = "idle"
    /\ UNCHANGED <<monVars, lastSend, deliveries, dispatched, cycleLog, cycleSnap, lastFetch, envVars>>
    /\ UNCHANGED <<cycleTick, fetchedTxs>>
    /\ LET w1 == IF c \in DOMAIN wallets THEN wallets ELSE wallets @@ (c :> <<>>)
           k1 == IF c \in DOMAIN wallets THEN walletKeys ELSE Append(walletKeys, c)
       IN  IF already_monitored(w1, c, a)
           THEN /\ UNCHANGED <<wallets, walletKeys, notified, disk, cmd, cmdsInCycle,
                                retained>>
                /\ Did("add_known", c, a, NoId, "-")
           ELSE /\ wallets' = [w1 EXCEPT ![c] = Append(@, a)]
                /\ retained' = IF <<c, a>> \in DOMAIN retained
                               THEN [retained EXCEPT ![<<c, a>>].back = TRUE]
                               ELSE retained
                /\ walletKeys' = k1
                /\ cmdsInCycle' = ("cycle" \in observe)
                /\ IF a \notin DOMAIN notified
                   THEN /\ notified' = notified @@ (a :> {})
                        /\ cmd' = [pc |-> "seeding", chat |-> c, addr |-> a]
                        /\ disk' = disk
                        /\ Did("add_seeding", c, a, NoId, "-")
                   ELSE /\ notified' = notified
                        /\ cmd' = Idle
                        /\ disk' = save_wallets(wallets', walletKeys', notified, disk, saved)
                        /\ Did("add", c, a, NoId, saved)

\* initialize_wallet_history gets its fetch result; add_wallet saves (line 185)
CmdAddSeed(resp, saved) ==
    /\ cmd.pc = "seeding"
    /\ notified' = [notified EXCEPT ![cmd.addr] = @ \cup SeedIds(check_transactions(resp))]
    /\ disk' = save_wallets(wallets, walletKeys, notified', disk, saved)
    /\ cmd' = Idle
    /\ UNCHANGED <<wallets, walletKeys, monVars, lastSend, deliveries, dispatched, cycleLog,
                   cycleSnap, cmdsInCycle, lastFetch, envVars>>
    /\ UNCHANGED <<cycleTick, fetchedTxs, retained>>
    /\ Did("add", cmd.chat, cmd.addr, NoId, saved)

\* remove_wallet, lines 232-263
CmdRemove(c, a, saved) ==
    /\ cmd.pc = "idle"
    /\ UNCHANGED <<walletKeys, notified, cmd, monVars, lastSend, deliveries, dispatched, cycleLog,
                   cycleSnap, lastFetch, envVars>>
    /\ UNCHANGED <<cycleTick, fetchedTxs>>
    /\ IF c \in DOMAIN wallets /\ a \in Range(wallets[c])
       THEN /\ wallets' = [wallets EXCEPT ![c] = RemoveFirst(@, a)]
            /\ cmdsInCycle' = ("cycle" \in observe)
            /\ disk' = save_wallets(wallets', walletKeys, notified, disk, saved)
            /\ retained' = IF "retained" \in observe
                           THEN [k \in DOMAIN retained \cup {<<c, a>>} |->
                                    IF k = <<c, a>>
                                    THEN [ids |-> IF a \in DOMAIN notified
                                                  THEN notified[a] ELSE {},
                                          back |-> FALSE]
                                    ELSE retained[k]]
                           ELSE retained
            /\ Did("remove", c, a, NoId, saved)
       ELSE /\ UNCHANGED <<wallets, cmdsInCycle, disk, retained>>
            /\ Step

\* the process ends and is started again: __init__ loads the snapshot file
\* (lines 24-27) and post_init starts the monitoring task anew
Restart ==
    /\ wallets' = load_wallets(disk).wallets
    /\ walletKeys' = load_wallets(disk).keys
    /\ notified' = load_wallets(disk).notified
    /\ pc' = "boot"
    /\ dictSize' = 0 /\ ki' = 0 /\ li' = 0 /\ ti' = 0
    /\ curChat' = NoChat /\ curAddr' = NoAddr
    /\ txs' = <<>>
    /\ cmd' = Idle
    /\ lastSend' = NoSend
    /\ cycleLog' = <<>> /\ cycleSnap' = <<>>
    /\ cmdsInCycle' = FALSE
    /\ lastFetch' = "-"
    /\ fetchedTxs' = <<>>
    /\ lastOp' = IF "ops" \in observe
                 THEN Op("load", NoChat, NoAddr, NoId, "-", "-") ELSE NoOp
    /\ lastSaved' = [lastSaved EXCEPT !.failed = FALSE, !.recovers = FALSE]
    /\ UNCHANGED <<disk, deliveries, dispatched, cycleTick, retained, envVars>>

Next ==
    \/ MonCycleStart
    \/ \E resp \in Responses : MonFetch(resp)
    \/ \E sinkOk \in BOOLEAN, saved \in SaveOutcomes : MonSend(sinkOk, saved)
    \/ MonPause
    \/ MonPace
    \/ \E m \in Commands, saved \in SaveOutcomes : CmdAdd(m[1], m[2], saved)
    \/ \E resp \in Responses, saved \in SaveOutcomes : CmdAddSeed(resp, saved)
    \/ \E m \in Commands, saved \in SaveOutcomes : CmdRemove(m[1], m[2], saved)

Spec == Init /\ [][Next]_vars

\* the same program started on a snapshot whose set for A is nearly full
SpecFull == InitFull /\ [][Next]_vars

\* the same with one chat that removes and adds A again, recording the ids
\* each removal left behind
InitRetain ==
    /\ InitFrom(FullDisk, {"retained"}, {})
    /\ everMarked = EmptyMap

NextRetain ==
    \/ MonCycleStart
    \/ \E resp \in Responses : MonFetch(resp)
    \/ \E sinkOk \in BOOLEAN : MonSend(sinkOk, "ok")
    \/ MonPause
    \/ MonPace
    \/ CmdAdd(1, "A", "ok")
    \/ CmdRemove(1, "A", "ok")

SpecRetain == InitRetain /\ [][NextRetain]_vars

\* the program of Spec, recording the operations instead of the cycles
InitOps ==
    /\ \E d \in InitialDisks : InitFrom(d, {"ops"}, {})
    /\ everMarked = EmptyMap

SpecOps == InitOps /\ [][Next]_vars

TypeOK ==
    /\ DOMAIN wallets \subseteq ChatIds
    /\ Range(walletKeys) = DOMAIN wallets
    /\ \A a \in DOMAIN notified : notified[a] \subseteq 1..IdSpace
    /\ pc \in {"boot", "fetch", "send", "pause", "sleep1", "sleep30", "backoff"}

(***************************************************************************)
(* DedupSpec: is_transaction_notified and mark_transaction_notified called *)
(* in any order on sets that start empty, nearly full or full              *)
(***************************************************************************)
MarkIds == {1, 2, IdSpace - 100, IdSpace - 1, IdSpace}

DedupDisks ==
    {DiskMissing}
        \cup {Snapshot((1 :> <<"A">>), <<1>>, ("A" :> Prefill(n))) :
                n \in (TrimLimit - 2)..TrimLimit}

InitDedup ==
    /\ \E d \in DedupDisks : InitFrom(d, {}, SaveFaults)
    /\ everMarked = notified

MarkedOf(a) == IF a \in DOMAIN everMarked THEN everMarked[a] ELSE {}
NotifiedOf(a) == IF a \in DOMAIN notified THEN notified[a] ELSE {}

\* mark_transaction_notified(a, h), lines 73-86
DsMark(a, h, saved) ==
    /\ notified' = mark_transaction_notified(notified, a, h)
    /\ disk' = save_wallets(wallets, walletKeys, notified', disk, saved)
    /\ everMarked' = [x \in DOMAIN everMarked \cup {a} |->
                        IF x = a THEN MarkedOf(a) \cup {h} ELSE everMarked[x]]
    /\ lastMark' = [valid |-> TRUE, addr |-> a, id |-> h, before |-> NotifiedOf(a)]
    /\ UNCHANGED <<wallets, walletKeys, monVars, cmd, lastSend, deliveries, dispatched, cycleLog,
                   cycleSnap, cmdsInCycle, lastFetch, observe, diskFaults>>
    /\ UNCHANGED <<cycleTick, fetchedTxs, retained>>
    /\ Did("mark", NoChat, a, h, saved)

\* is_transaction_notified(a, h), lines 67-71
DsQuery(a, h) ==
    /\ notified' = NotifiedInit(notified, a)
    /\ Step
    /\ UNCHANGED <<wallets, walletKeys, disk, monVars, cmd, lastSend, deliveries, dispatched,
                   cycleLog, cycleSnap, cmdsInCycle, lastFetch, envVars>>
    /\ UNCHANGED <<cycleTick, fetchedTxs, retained>>

NextDedup ==
    \/ \E h \in MarkIds, saved \in SaveOutcomes : DsMark("A", h, saved)
    \/ \E a \in Addresses, h \in MarkIds : DsQuery(a, h)

DedupSpec == InitDedup /\ [][NextDedup]_vars

(***************************************************************************)
(* ClassifySpec: send_transaction_notification called on any watched       *)
(* address and any transaction of up to two inputs and three outputs       *)
(***************************************************************************)
SeqsUpTo(S, n) == UNION {[1..m -> S] : m \in 0..n}

ClsInputs == SeqsUpTo({In(x) : x \in {"A", "C"}}, 2)
ClsOutputs == SeqsUpTo({Out(x, n) : x \in Addresses, n \in {2, 5}}, 3)
ClsTxs == {Tx(1, ins, outs) : ins \in ClsInputs, outs \in ClsOutputs}

InitClassify ==
    /\ InitFrom(DiskMissing, {}, {})
    /\ everMarked = EmptyMap

\* send_transaction_notification(application, c, a, tx), lines 370-418
ClsCall(c, a, tx, sinkOk) ==
    /\ lastSend' = [sent |-> TRUE, ok |-> sinkOk, chat |-> c, addr |-> a,
                    tx |-> tx, msg |-> Classify(a, tx)]
    /\ UNCHANGED <<wallets, walletKeys, notified, disk, monVars, cmd, deliveries, dispatched,
                   cycleLog, cycleSnap, cmdsInCycle, lastFetch, lastOp, lastSaved,
                   cycleTick, fetchedTxs, retained, envVars>>

NextClassify ==
    \E a \in Addresses, tx \in ClsTxs : ClsCall(1, a, tx, TRUE)

ClassifySpec == InitClassify /\ [][NextClassify]_vars

(***************************************************************************)
(* WindowSpec: the monitoring task on fetches that return more             *)
(* transactions than process_transactions looks at                         *)
(***************************************************************************)
WinLen == 12

WinTx(i) == Tx(i, <<In("C")>>, <<Out("A", 1)>>)
\* ids 1..WinLen in the order the API returns them
WinList == [i \in 1..WinLen |-> WinTx(i)]

WinResponses ==
    {Resp("timeout", <<>>), Resp("list", WinList),
     Resp("list", <<WinTx(3), TxNoId, WinTx(3), WinTx(1)>>)}

InitWindow ==
    /\ \E seen \in {{}, {2, 5}} :
            InitFrom(Snapshot((1 :> <<"A">>), <<1>>, ("A" :> seen)), {"window"}, {})
    /\ everMarked = EmptyMap

NextWindow ==
    \/ MonCycleStart
    \/ \E resp \in WinResponses : MonFetch(resp)
    \/ \E sinkOk \in BOOLEAN : MonSend(sinkOk, "ok")
    \/ MonPause
    \/ MonPace
    \/ CmdAdd(1, "B", "ok")
    \/ \E resp \in WinResponses : CmdAddSeed(resp, "ok")
    \/ CmdRemove(1, "B", "ok")

WindowSpec == InitWindow /\ [][NextWindow]_vars

(***************************************************************************)
(* PersistSpec: the program with writes of the snapshot file that fail and *)
(* with restarts of the process                                            *)
(***************************************************************************)
PersistDisks == {DiskMissing, DiskCorrupt, DiskBadWallets, DiskBadNotified}

PersistCommands == {<<1, "A">>, <<2, "B">>}

PersistResponses == {Resp("timeout", <<>>), Resp("list", <<TxIn>>)}

InitPersist ==
    /\ \E d \in PersistDisks : InitFrom(d, {"ops"}, SaveFaults)
    /\ everMarked = EmptyMap

NextPersist ==
    \/ MonCycleStart
    \/ \E resp \in PersistResponses : MonFetch(resp)
    \/ \E saved \in SaveOutcomes : MonSend(TRUE, saved)
    \/ MonPause
    \/ MonPace
    \/ \E m \in PersistCommands, saved \in SaveOutcomes : CmdAdd(m[1], m[2], saved)
    \/ \E resp \in PersistResponses, saved \in SaveOutcomes : CmdAddSeed(resp, saved)
    \/ \E m \in PersistCommands, saved \in SaveOutcomes : CmdRemove(m[1], m[2], saved)
    \/ Restart

PersistSpec == InitPersist /\ [][NextPersist]_vars

(***************************************************************************)
(* LiveSpec: the monitoring task under fairness.  Every await of the task  *)
(* ends: the GET has a timeout of 10 s, send_message the timeouts of the   *)
(* library, the sleeps are finite; so each step of the task that can be    *)
(* taken is taken eventually.  Commands come as the subscribers please.    *)
(***************************************************************************)
LiveOutcomes == {"ok", "dump_fails"}

InitLive ==
    /\ InitFrom(DiskMissing, {"ticks"}, LiveOutcomes \ {"ok"})
    /\ everMarked = EmptyMap

LiveFetch == \E resp \in Responses : MonFetch(resp)
LiveSend == \E sinkOk \in BOOLEAN, saved \in LiveOutcomes : MonSend(sinkOk, saved)

NextLive ==
    \/ MonCycleStart
    \/ LiveFetch
    \/ LiveSend
    \/ MonPause
    \/ MonPace
    \/ \E m \in Commands : CmdAdd(m[1], m[2], "ok")
    \/ \E resp \in Responses, saved \in LiveOutcomes : CmdAddSeed(resp, saved)
    \/ \E m \in Commands, saved \in LiveOutcomes : CmdRemove(m[1], m[2], saved)

LiveSpec ==
    /\ InitLive /\ [][NextLive]_vars
    /\ WF_vars(MonCycleStart) /\ WF_vars(LiveFetch) /\ WF_vars(LiveSend)
    /\ WF_vars(MonPause) /\ WF_vars(MonPace)

(***************************************************************************)
(* SharedSpec: two chats that watch the same address from the start, with  *)
(* no transaction notified yet; chat 1 adds and removes a second address   *)
(***************************************************************************)
SharedDisk == Snapshot((1 :> <<"A">> @@ 2 :> <<"A">>), <<1, 2>>, ("A" :> {}))

InitShared ==
    /\ InitFrom(SharedDisk, {"dispatched", "window"}, {})
    /\ everMarked = EmptyMap

NextShared ==
    \/ MonCycleStart
    \/ \E resp \in Responses : MonFetch(resp)
    \/ \E sinkOk \in BOOLEAN : MonSend(sinkOk, "ok")
    \/ MonPause
    \/ MonPace
    \/ CmdAdd(1, "B", "ok")
    \/ \E resp \in Responses : CmdAddSeed(resp, "ok")
    \/ CmdRemove(1, "B", "ok")

SharedSpec == InitShared /\ [][NextShared]_vars

(***************************************************************************)
(* Properties                                                              *)
(***************************************************************************)
LogPairs(log) == [i \in DOMAIN log |-> <<log[i].chat, log[i].addr>>]
IsPrefix(s, t) == Len(s) <= Len(t) /\ SubSeq(t, 1, Len(s)) = s

\* C1: when send_message failed for a transaction, its id is not in the
\* notified set of the address afterwards (the id is marked only after a
\* successful dispatch).
C1_DispatchGate ==
    (lastSend.sent /\ ~lastSend.ok)
        => ~is_transaction_notified(notified, lastSend.addr, lastSend.tx.transaction_id)

\* C2: no transaction id is delivered successfully more than once for one
\* address, also after the set of the address has been trimmed.
C2_AtMostOnce == \A key \in DOMAIN deliveries : deliveries[key] <= 1

\* C3 (as stated): is_transaction_notified is true for exactly the ids that
\* were marked, whatever the number of marks.
C3_EveryMarkedIsNotified ==
    \A a \in Addresses :
        {h \in 1..IdSpace : is_transaction_notified(notified, a, h)} = MarkedOf(a)

\* C3 (amended): is_transaction_notified is false for every id never marked,
\* and true for every marked id as long as no more than 1000 distinct ids
\* have been marked on the address.
C3_MarkedIsNotifiedUntilTrim ==
    \A a \in Addresses :
        LET known == {h \in 1..IdSpace : is_transaction_notified(notified, a, h)}
        IN  /\ known \subseteq MarkedOf(a)
            /\ Cardinality(MarkedOf(a)) <= TrimLimit => known = MarkedOf(a)

\* a mark of a new id has brought the marked ids of A to exactly 1000
C3_Witness ==
    /\ lastMark.valid /\ lastMark.addr = "A"
    /\ lastMark.id \notin lastMark.before
    /\ Cardinality(MarkedOf("A")) = TrimLimit

\* C4: every set of notified ids has at most 1000 members.
C4_BoundedMemory ==
    \A a \in DOMAIN notified : Cardinality(notified[a]) <= TrimLimit

\* the set of A has been trimmed, and B has been added and seeded
C4_Witness ==
    /\ "A" \in DOMAIN notified /\ Cardinality(notified["A"]) = TrimKeep
    /\ "B" \in DOMAIN notified /\ notified["B"] # {}

C6_SnapshotIsolation ==
    /\ pc # "backoff"
    /\ IsPrefix(LogPairs(cycleLog), cycleSnap)
    /\ pc = "sleep30" => LogPairs(cycleLog) = cycleSnap

\* C7: no notification is delivered for an address while the backlog seeding
\* of its add command is still pending.
C7_SeedingPrecedesDispatch ==
    ~(cmd.pc = "seeding" /\ lastSend.ok /\ lastSend.addr = cmd.addr)

\* C8: a failed fetch leaves every notified set and the position of the
\* cycle as they were and continues with the pacing sleep (never the
\* backoff); a cycle no command interfered with fetches every pair of
\* self.wallets, whatever fetches failed.
C8_FetchFailureAbsorbed ==
    /\ [][(pc = "fetch" /\ lastFetch' \in FailureKinds)
            => /\ pc' = "sleep1"
               /\ notified' = notified
               /\ <<ki, li, curChat, curAddr, dictSize>>' = <<ki, li, curChat, curAddr, dictSize>>]_vars
    /\ []((pc = "sleep30" /\ ~cmdsInCycle)
            => LogPairs(cycleLog) = Pairs(wallets, walletKeys, 1))

\* a cycle has ended whose first fetch failed and whose second pair was
\* fetched with success
C8_Witness ==
    /\ pc = "sleep30" /\ ~cmdsInCycle
    /\ Len(cycleLog) >= 2
    /\ cycleLog[1].failed /\ ~cycleLog[2].failed

\* C9: no message is delivered for a transaction without outputs.
C9_EmptyOutputsRejected ==
    lastSend.ok => lastSend.tx.outputs # <<>>

\* C10: a delivered message is tagged Outgoing only if no output pays the
\* watched address and some input spends from it; a transaction that does
\* not touch the address is not delivered at all.
C10_OutgoingSpendsFromAddress ==
    (lastSend.ok /\ lastSend.msg.direction = "Outgoing")
        => /\ ~is_incoming(lastSend.addr, lastSend.tx)
           /\ \E i \in DOMAIN lastSend.tx.inputs :
                lastSend.tx.inputs[i].previous_outpoint_address = lastSend.addr

\* the sum of the amounts of the outputs of outs that pay a
RECURSIVE AmountTo(_, _)
AmountTo(a, outs) ==
    IF outs = <<>> THEN 0
    ELSE (IF Head(outs).script_public_key_address = a THEN Head(outs).amount ELSE 0)
            + AmountTo(a, Tail(outs))

\* C11: a transaction with at least one output to the watched address is
\* classified Incoming (also when an input spends from the address), its
\* counterparty is the address of the first input, or Unknown without
\* inputs, and its amount is the sum of the amounts of exactly the outputs
\* that pay the address.
C11_IncomingClassification ==
    (lastSend.sent /\ \E i \in DOMAIN lastSend.tx.outputs :
                        lastSend.tx.outputs[i].script_public_key_address = lastSend.addr)
        => /\ lastSend.msg.direction = "Incoming"
           /\ lastSend.msg.to_address = lastSend.addr
           /\ lastSend.msg.from_address =
                 (IF Len(lastSend.tx.inputs) = 0 THEN "Unknown"
                  ELSE lastSend.tx.inputs[1].previous_outpoint_address)
           /\ lastSend.msg.amount = AmountTo(lastSend.addr, lastSend.tx.outputs)

\* a transaction whose first input spends from A and whose outputs pay A, B
\* and A again has been classified for A
C11_Witness ==
    /\ lastSend.sent /\ lastSend.addr = "A"
    /\ Len(lastSend.tx.inputs) = 2
    /\ lastSend.tx.inputs[1].previous_outpoint_address = "A"
    /\ Len(lastSend.tx.outputs) = 3
    /\ lastSend.tx.outputs[1].script_public_key_address = "A"
    /\ lastSend.tx.outputs[2].script_public_key_address = "B"
    /\ lastSend.tx.outputs[3].script_public_key_address = "A"
    /\ lastSend.msg.amount = 7

Min(S) == CHOOSE x \in S : \A y \in S : x <= y

\* A step of process_transactions from one await to the next, with a window
\* of n transactions: of the first n transactions the fetch returned, the
\* next one in the order returned that has an id and is not in the notified
\* set of the address is the one sent next; without such a one the
\* processing of the address ends; the transaction sent is that transaction
\* of the fetched list.
DispatchesWindow(n) ==
    /\ (pc \in {"fetch", "pause"} /\ pc' # pc) =>
            LET list == IF pc = "fetch" THEN fetchedTxs' ELSE fetchedTxs
                from == IF pc = "fetch" THEN 0 ELSE ti
                last == IF Len(list) < n THEN Len(list) ELSE n
                new == {j \in (from + 1)..last :
                            /\ list[j].transaction_id # NoId
                            /\ list[j].transaction_id \notin NotifiedOf(curAddr)}
            IN  IF new = {} THEN pc' = "sleep1"
                ELSE pc' = "send" /\ ti' = Min(new)
    /\ (pc = "send" /\ pc' # pc) =>
            /\ lastSend'.sent /\ lastSend'.chat = curChat /\ lastSend'.addr = curAddr
            /\ lastSend'.tx = fetchedTxs[ti]

\* C12 (as stated): each of the first 20 transactions of a fetch that is not
\* yet notified is dispatched in that cycle, in the order returned, and none
\* beyond the 20th.
C12_WindowOfTwenty == [][DispatchesWindow(20)]_vars

\* C12 (amended): each of the first 10 transactions of a fetch that has an
\* id and is not in the notified set of the address when its turn comes is
\* dispatched in that cycle, in the order returned, and none beyond the 10th.
C12_WindowOfTen == [][DispatchesWindow(ProcessWindow)]_vars

\* the tenth transaction of a fetch of more than ten has been sent
C12_Witness ==
    /\ pc = "pause" /\ ti = ProcessWindow /\ lastSend.ok
    /\ Len(fetchedTxs) > ProcessWindow
    /\ lastSend.tx = fetchedTxs[ProcessWindow]

\* C13: when the process starts on the file a write that succeeded has left,
\* load_wallets yields the subscribers of that write, with their keys as
\* numbers again, the same addresses in the same order for each subscriber
\* and the same notified ids for each address.
C13_RestartRoundTrip ==
    (lastOp.op = "load" /\ lastSaved.valid)
        => /\ DOMAIN wallets \subseteq ChatIds
           /\ wallets = lastSaved.wallets
           /\ walletKeys = lastSaved.keys
           /\ notified = lastSaved.notified

\* the process has started on a file written with two subscribers and a
\* notified id
C13_Witness ==
    /\ lastOp.op = "load" /\ lastSaved.valid
    /\ walletKeys = <<2, 1>>
    /\ wallets[1] = <<"A">> /\ wallets[2] = <<"B">>
    /\ "A" \in DOMAIN notified /\ 1 \in notified["A"]

\* C16: when the process starts on a file that is missing, unreadable or
\* malformed, load_wallets does not fail (the process is up, its monitoring
\* task about to start) and both the wallets and the notified sets are empty.
C16_LoadFallback ==
    (lastOp.op = "load" /\ disk.kind # "ok")
        => /\ wallets = EmptyMap /\ walletKeys = <<>>
           /\ notified = EmptyMap
           /\ pc = "boot" /\ cmd = Idle

\* the process has started on a file whose 'wallets' can be read and whose
\* 'notified_transactions' cannot
C16_Witness ==
    /\ lastOp.op = "load" /\ disk = DiskBadNotified
    /\ wallets = EmptyMap /\ notified = EmptyMap

\* the wallets and the notified ids in memory are those of the file
MemoryIsPersisted ==
    /\ wallets = load_wallets(disk).wallets
    /\ walletKeys = load_wallets(disk).keys
    /\ \A a \in Addresses :
          NotifiedOf(a) = (IF a \in DOMAIN load_wallets(disk).notified
                           THEN load_wallets(disk).notified[a] ELSE {})

\* C19: after an operation whose write succeeded the file holds the wallets
\* and the notified sets of the memory, and at no await is a change of
\* either left out of the file (unless the last write failed).
C19_PersistenceFollowsMutation ==
    /\ lastOp.saved = "ok" => disk = Snapshot(wallets, walletKeys, notified)
    /\ ~lastSaved.failed => MemoryIsPersisted

\* C20: a write that fails leaves the memory as the operation made it (the
\* mark, the added or the removed address), the monitoring task goes on to
\* its pause and the command ends as usual; the next write that succeeds
\* puts the whole of the memory into the file.
C20_WriteFailureNonFatal ==
    /\ [][(pc = "send" /\ lastOp'.op = "mark" /\ lastOp'.saved \in SaveFaults)
            => /\ pc' = "pause"
               /\ notified' = mark_transaction_notified(notified, curAddr,
                                                        txs[ti].transaction_id)
               /\ wallets' = wallets
               /\ <<ki, li, curChat, curAddr, txs, ti>>' = <<ki, li, curChat, curAddr, txs, ti>>]_vars
    /\ [][(lastOp' # lastOp /\ lastOp'.op \in {"add", "remove"}
                /\ lastOp'.saved \in SaveFaults)
            => /\ cmd' = Idle /\ pc' = pc
               /\ (lastOp'.addr \in Range(wallets'[lastOp'.chat])) = (lastOp'.op = "add")]_vars
    /\ [](lastOp.saved = "ok" => disk = Snapshot(wallets, walletKeys, notified))

\* a write has succeeded after one that failed, and the file holds a mark
C20_Witness ==
    /\ lastOp.saved = "ok" /\ lastSaved.recovers
    /\ disk.kind = "ok" /\ "A" \in DOMAIN disk.notified /\ 1 \in disk.notified["A"]
    /\ disk = Snapshot(wallets, walletKeys, notified)

\* C14: a removal leaves every notified set as it was, an add removes no id
\* from any set, and no transaction that was notified when a chat removed
\* an address is sent to that chat for that address after the chat has added
\* the address back.
C14_HistorySurvivesRemoval ==
    /\ [][(\E c \in DOMAIN wallets : Len(wallets'[c]) < Len(wallets[c]))
            => notified' = notified]_vars
    /\ [][(cmd.pc = "idle" /\ wallets' # wallets
                /\ \A c \in DOMAIN wallets : Len(wallets'[c]) >= Len(wallets[c]))
            => \A a \in DOMAIN notified :
                    a \in DOMAIN notified' /\ notified[a] \subseteq notified'[a]]_vars
    /\ [][(pc = "send" /\ pc' = "pause" /\ <<curChat, curAddr>> \in DOMAIN retained)
            => (retained[<<curChat, curAddr>>].back
                    => txs[ti].transaction_id \notin retained[<<curChat, curAddr>>].ids)]_vars

NoDuplicates(w) ==
    \A c \in DOMAIN w : \A i, j \in DOMAIN w[c] : i # j => w[c][i] # w[c][j]

\* C15: no list of self.wallets holds an address twice, whatever adds and
\* removes the chats have sent; an add of an address the chat already watches
\* leaves the wallets and the notified sets as they were.
C15_NoDuplicateAddress ==
    /\ [](NoDuplicates(wallets))
    /\ [][(lastOp' # lastOp /\ lastOp'.op = "add_known")
            => /\ lastOp'.addr \in Range(wallets[lastOp'.chat])
               /\ wallets' = wallets /\ walletKeys' = walletKeys
               /\ notified' = notified]_vars

\* chat 1 watches B and A and has sent an add of A again
C15_Witness ==
    /\ lastOp.op = "add_known" /\ lastOp.chat = 1 /\ lastOp.addr = "A"
    /\ wallets[1] = <<"B", "A">>

\* C17 (as stated): a cycle starts only after the 30 s wait: not when the
\* task starts, and not straight after the 60 s wait of the except clause.
C17_CycleOnlyAfterIdleWait ==
    [][(lastOp' # lastOp /\ lastOp'.op = "cycle") => pc = "sleep30"]_vars

\* C17 (amended): a cycle starts when the task starts, without a wait before
\* the first fetch, after the 30 s wait, and straight after the 60 s wait of
\* the except clause; a fetch follows only the start of a cycle or the 1 s
\* pause after the fetch before it.
C17_CycleEntries ==
    /\ [][(lastOp' # lastOp /\ lastOp'.op = "cycle")
            => pc \in {"boot", "sleep30", "backoff"}]_vars
    /\ [][(pc \in {"boot", "backoff"} /\ pc' # pc) => lastOp'.op = "cycle"]_vars
    /\ [][(pc' = "fetch" /\ pc # "fetch") => (lastOp'.op = "cycle" \/ pc = "sleep1")]_vars

\* a cycle has started straight after the 60 s wait and is at its first fetch
C17_Witness ==
    lastOp.op = "cycle" /\ lastOp.from = "backoff" /\ pc = "fetch"

\* C18: under fairness of the steps of the monitoring task, cycles start
\* again and again, whatever fetches, sends and writes fail and whenever the
\* except clause is reached.
C18_CyclesForever ==
    /\ []<>(cycleTick = 0)
    /\ []<>(cycleTick = 1)

\* the except clause has been reached in a cycle after the first
C18_Witness ==
    pc = "backoff" /\ cycleTick = 0 /\ disk.kind = "corrupt"

\* the chats whose list holds the address
Watchers(a) == {c \in DOMAIN wallets : a \in Range(wallets[c])}

\* an output of the transaction pays the address or an input spends from it
Touches(a, tx) ==
    \/ \E i \in DOMAIN tx.outputs : tx.outputs[i].script_public_key_address = a
    \/ \E i \in DOMAIN tx.inputs : tx.inputs[i].previous_outpoint_address = a

\* C21: when two distinct chats watch the same address, a chat's pass over
\* the fetch results of that address ends with every transaction of the
\* results that carries an id and touches the address dispatched to that
\* chat, in this pass or in an earlier one: a mark made while the other chat
\* was served does not take the notification away.
C21_EachSubscriberNotified ==
    (pc = "sleep1" /\ curChat \in Watchers(curAddr) /\ Cardinality(Watchers(curAddr)) >= 2)
        => \A i \in DOMAIN ToProcess(Resp("list", fetchedTxs)) :
              LET tx == fetchedTxs[i]
              IN  (tx.transaction_id # NoId /\ Touches(curAddr, tx))
                      => <<curChat, curAddr, tx.transaction_id>> \in dispatched

====
